---- MODULE Spec2Model ----
(***************************************************************************)
(* Custody ledger (Scripts/blockchain_logger.py), tamper-evident log       *)
(* (Scripts/sha3_logger.py), multi-agent tracker (Scripts/multi_agent.py)  *)
(* correlation engine (Scripts/evidence_correlator.py), time aligner       *)
(* (Scripts/time_sync.py) and ingestion loop (Scripts/main.py) of the      *)
(* Lightweight Vehicle Logger.                                             *)
(*                                                                         *)
(* Serialisation is modelled as the text json.dumps produces, and a digest *)
(* as a text that wraps its preimage, so that two digests are equal        *)
(* exactly when their preimages are (SHA3 without collisions).             *)
(***************************************************************************)
EXTENDS Integers, Sequences, FiniteSets, TLC

\* ---------------------------------------------------------------- bounds
MaxChain == 3       \* blocks in a ledger, the genesis block included
MaxTime  == 1       \* time.time() returns a tick in 0..MaxTime
MaxLog   == 3       \* entries in log.jsonl
MaxCalls == 2       \* add_block calls of each concurrent producer

Times    == 0..MaxTime
Payloads == {"p1", "p2"}          \* serialized records handed to add_block
Forged   == {"p1", "p2", "px"}    \* payloads an in-place edit may write
Producers == {1, 2}

VARIABLES
    chain,        \* Blockchain.chain: sequence of blocks, chain[k+1] is block k
    log,          \* log.jsonl: sequence of entries {data, sha3}
    op,           \* the last operation applied: [kind, i, j]
    tampered,     \* TRUE once a stored block or entry was edited in place
    pc,           \* position of each concurrent producer inside add_block
    last_block,   \* add_block's local last_block, per producer
    new_block,    \* add_block's local new_block, per producer
    calls,        \* add_block calls each producer has still to make
    agents,       \* MultiAgentManager.agents: agent_id -> AgentState
    last_vel,     \* velocity of the latest record of each tracked agent
    seen,         \* agent ids that were ever passed to update
    events,       \* value returned by the last update call
    record,       \* record passed to the last update call
    streams,      \* main's streams: sequence of <<agent_id, records>>, in insertion order
    corr,         \* value returned by the last correlate call
    cfg,          \* TimeSyncConfig passed to the last TimeSynchronizer(...) call
    tsync,        \* outcome of that call: the object's cfg, or the error raised
    aligned,      \* the last align call: its argument and its return value
    std_dict,     \* main's std_dict of the current iteration
    step,         \* position of main inside the iteration
    samples,      \* iterations of main's loop completed
    raised        \* add_block calls that raised

trackerVars == <<agents, last_vel, seen, events, record>>
corrVars == <<streams, corr>>
syncVars == <<cfg, tsync, aligned>>
ingestVars == <<std_dict, step, samples>>

vars == <<chain, log, op, tampered, pc, last_block, new_block, calls,
          agents, last_vel, seen, events, record, streams, corr,
          cfg, tsync, aligned, std_dict, step, samples, raised>>

\* ------------------------------------------------------- hashing, json
\* json.dumps of a str
json_str(s) == "\"" \o s \o "\""

\* hashlib.sha3_512(s.encode()).hexdigest()
sha3_512(s) == "sha3_512(" \o s \o ")"

\* json.dumps(self.__dict__, sort_keys=True): every attribute the object has
\* at the time of the call, keys in sorted order.
json_dumps_block(self) ==
    "{\"data\": " \o json_str(self.data)
    \o (IF "hash" \in DOMAIN self THEN ", \"hash\": " \o json_str(self.hash) ELSE "")
    \o ", \"index\": " \o ToString(self.index)
    \o ", \"previous_hash\": " \o json_str(self.previous_hash)
    \o ", \"timestamp\": " \o ToString(self.timestamp)
    \o "}"

\* Block.compute_hash
compute_hash(self) == sha3_512(json_dumps_block(self))

\* Block.__init__: the four attributes are set, then self.hash is computed
\* from the object as it is at that moment (no hash attribute yet).
Block(index, timestamp, data, previous_hash) ==
    LET self == [index |-> index, timestamp |-> timestamp, data |-> data,
                 previous_hash |-> previous_hash]
    IN  [index |-> index, timestamp |-> timestamp, data |-> data,
         previous_hash |-> previous_hash, hash |-> compute_hash(self)]

\* Blockchain.create_block
create_block(t) == Block(0, t, "Starter Block", "0")

\* Blockchain.add_block, called when time.time() returns t
add_block_front(c, data, t) ==
    <<Block(Len(c), t, data, c[Len(c)].hash)>> \o c

add_block_first(c, data, t) ==
    Append(c, Block(Len(c), t, data, c[1].hash))

add_block(c, data, t) ==
    LET last == c[Len(c)]
        new  == Block(Len(c), t, data, last.hash)
    IN  Append(c, new)

\* Blockchain.is_chain_valid; python index i is position i+1
is_chain_valid_linkage_only(c) ==
    \A i \in 1..(Len(c) - 1) :
        LET curr == c[i + 1]
            prev == c[i]
        IN  ~(curr.previous_hash # prev.hash)

is_chain_valid_and(c) ==
    \A i \in 1..(Len(c) - 1) :
        LET curr == c[i + 1]
            prev == c[i]
        IN  ~(curr.hash # compute_hash(curr) /\ curr.previous_hash # prev.hash)

is_chain_valid_from2(c) ==
    \A i \in 2..(Len(c) - 1) :
        LET curr == c[i + 1]
            prev == c[i]
        IN  ~(curr.hash # compute_hash(curr) \/ curr.previous_hash # prev.hash)

is_chain_valid(c) ==
    \A i \in 1..(Len(c) - 1) :
        LET curr == c[i + 1]
            prev == c[i]
        IN  ~(curr.hash # compute_hash(curr) \/ curr.previous_hash # prev.hash)

\* --------------------------------------------------- multi-agent tracker
MaxTs == 1          \* timestamp_ns of a record passed to update is in 1..MaxTs

\* agent ids, listed in the order python sorts them
AgentIds == <<"veh-1", "veh-2", "veh-3">>
Positions == {<<0, 0>>, <<3, 4>>, <<10, 0>>}
Velocities == {<<-20, 1>>, <<-40, 2>>, <<-20, -1>>}

\* MultiAgentManager.__init__ defaults
prox_threshold == 5
heading_tol_deg == 10

\* angles are in microradians
PiMicro == 3141593

\* math.radians
radians(deg) == (deg * PiMicro) \div 180

\* self.heading_tol
heading_tol == radians(heading_tol_deg)

\* AgentState defaults for last_pos and last_heading
NonePos == <<>>
NoneHeading == 1000000000

\* AgentState(agent_id=aid)
AgentState(aid) ==
    [agent_id |-> aid, role |-> "independent", last_pos |-> NonePos,
     last_heading |-> NoneHeading]

\* MultiAgentManager._get
_get(ag, aid) ==
    IF aid \notin DOMAIN ag
    THEN [a \in DOMAIN ag \cup {aid} |-> IF a = aid THEN AgentState(aid) ELSE ag[a]]
    ELSE ag

\* MultiAgentManager._heading: math.atan2(vy, vx), on the velocities used
_heading(vx, vy) ==
    CASE vy = 0 /\ vx >= 0   -> 0
      [] vy = 0 /\ vx < 0    -> PiMicro
      [] vx = 0 /\ vy > 0    -> 1570796
      [] vx = 0 /\ vy < 0    -> -1570796
      [] vx = -20 /\ vy = 1  -> 3091634
      [] vx = -40 /\ vy = 2  -> 3091634
      [] vx = -20 /\ vy = -1 -> -3091634

\* math.hypot(x, y) squared; hypot values are only compared with each other
\* or with a non-negative threshold, and squaring keeps the order
hypot_sq(x, y) == x * x + y * y

\* MultiAgentManager._dist, squared
_dist_sq(a, b) == hypot_sq(a[1] - b[1], a[2] - b[2])

\* abs
abs(x) == IF x < 0 THEN -x ELSE x

\* sorted(ids) of distinct agent ids
sorted_ids(S) == SelectSeq(AgentIds, LAMBDA a : a \in S)

\* the close list of update: other agents within range and heading tolerance
close_strict(ag, aid, pos, head) ==
    {other_id \in DOMAIN ag :
        /\ ~(other_id = aid \/ ag[other_id].last_pos = NonePos
                            \/ ag[other_id].last_heading = NoneHeading)
        /\ _dist_sq(pos, ag[other_id].last_pos) < prox_threshold * prox_threshold
        /\ abs(head - ag[other_id].last_heading) <= heading_tol}

close_of(ag, aid, pos, head) ==
    {other_id \in DOMAIN ag :
        /\ ~(other_id = aid \/ ag[other_id].last_pos = NonePos
                            \/ ag[other_id].last_heading = NoneHeading)
        /\ _dist_sq(pos, ag[other_id].last_pos) <= prox_threshold * prox_threshold
        /\ abs(head - ag[other_id].last_heading) <= heading_tol}

\* MultiAgentManager.update: the agent map after the call and the events
\* returned.  Inside the loop over close the comparison speed >= os does not
\* depend on the close agent (ov is always (0.0, 0.0)), so every iteration
\* assigns the same two roles.
update_both_leader(ag, rec) ==
    LET aid   == rec.agent_id
        pos   == rec.position
        vel   == rec.velocity
        head  == _heading(vel[1], vel[2])
        s     == _get(ag, aid)
        ag1   == [s EXCEPT ![aid].last_pos = pos, ![aid].last_heading = head]
        close == close_of(ag1, aid, pos, head)
    IN  IF close # {}
        THEN [agents |-> [a \in DOMAIN ag1 |->
                            IF a = aid \/ a \in close
                            THEN [ag1[a] EXCEPT !.role = "leader"]
                            ELSE ag1[a]],
              events |-> <<[type |-> "platoon_detected",
                            participants |-> sorted_ids({aid} \cup close),
                            timestamp_ns |-> rec.timestamp_ns]>>]
        ELSE [agents |-> ag1, events |-> <<>>]

update_keep_first(ag, rec) ==
    LET aid   == rec.agent_id
        pos   == rec.position
        vel   == rec.velocity
        head  == _heading(vel[1], vel[2])
        got   == _get(ag, aid)
        ag1   == IF aid \in DOMAIN ag THEN got
                 ELSE [got EXCEPT ![aid].last_pos = pos, ![aid].last_heading = head]
        close == close_of(ag1, aid, ag1[aid].last_pos, ag1[aid].last_heading)
    IN  IF close # {}
        THEN [agents |-> [a \in DOMAIN ag1 |->
                            IF a = aid THEN [ag1[a] EXCEPT !.role = "leader"]
                            ELSE IF a \in close THEN [ag1[a] EXCEPT !.role = "follower"]
                            ELSE ag1[a]],
              events |-> <<[type |-> "platoon_detected",
                            participants |-> sorted_ids({aid} \cup close),
                            timestamp_ns |-> rec.timestamp_ns]>>]
        ELSE [agents |-> ag1, events |-> <<>>]

update_reset_others(ag, rec) ==
    LET aid   == rec.agent_id
        pos   == rec.position
        vel   == rec.velocity
        head  == _heading(vel[1], vel[2])
        s     == _get(ag, aid)
        ag1   == [s EXCEPT ![aid].last_pos = pos, ![aid].last_heading = head]
        close == close_of(ag1, aid, pos, head)
    IN  IF close # {}
        THEN [agents |-> [a \in DOMAIN ag1 |->
                            IF a = aid THEN [ag1[a] EXCEPT !.role = "leader"]
                            ELSE IF a \in close THEN [ag1[a] EXCEPT !.role = "follower"]
                            ELSE [ag1[a] EXCEPT !.role = "independent"]],
              events |-> <<[type |-> "platoon_detected",
                            participants |-> sorted_ids({aid} \cup close),
                            timestamp_ns |-> rec.timestamp_ns]>>]
        ELSE [agents |-> ag1, events |-> <<>>]

update(ag, rec) ==
    LET aid   == rec.agent_id
        pos   == rec.position
        vel   == rec.velocity
        head  == _heading(vel[1], vel[2])
        s     == _get(ag, aid)
        ag1   == [s EXCEPT ![aid].last_pos = pos, ![aid].last_heading = head]
        close == close_of(ag1, aid, pos, head)
        speed == hypot_sq(vel[1], vel[2])
        os    == hypot_sq(0, 0)
    IN  IF close # {}
        THEN [agents |-> [a \in DOMAIN ag1 |->
                            IF a = aid
                            THEN [ag1[a] EXCEPT !.role =
                                     IF speed >= os THEN "leader" ELSE "follower"]
                            ELSE IF a \in close
                            THEN [ag1[a] EXCEPT !.role =
                                     IF speed >= os THEN "follower" ELSE "leader"]
                            ELSE ag1[a]],
              events |-> <<[type |-> "platoon_detected",
                            participants |-> sorted_ids({aid} \cup close),
                            timestamp_ns |-> rec.timestamp_ns]>>]
        ELSE [agents |-> ag1, events |-> <<>>]

NoRecord == [agent_id |-> "?", position |-> <<0, 0>>, velocity |-> <<0, 0>>, timestamp_ns |-> 0]

\* --------------------------------------------------- correlation engine
MaxRecords == 3     \* records collected in streams before correlate is called

CorrAgents == {"veh-1", "veh-2", "veh-3"}
CorrTimes == {0, 50000000, 100000001}          \* timestamp_ns
CorrPositions == {<<0, 0>>, <<2, 0>>, <<3, 0>>}

\* correlate defaults
window_ms == 50
max_xy_dist == 2

\* hashlib.sha3_256(b).hexdigest()
sha3_256_hex(b) == "sha3_256(" \o b \o ")"

\* StandardRecord.finalize: digest of the record's own content
record_hash_of(aid, ts, pos) ==
    sha3_256_hex("{\"agent_id\": " \o json_str(aid)
                 \o ", \"position\": {\"x\": " \o ToString(pos[1])
                 \o ", \"y\": " \o ToString(pos[2]) \o "}"
                 \o ", \"timestamp_ns\": " \o ToString(ts) \o "}")

\* a finalized standard record as a dict
StdRecord(aid, ts, pos) ==
    [agent_id |-> aid, timestamp_ns |-> ts, position |-> pos,
     record_hash |-> record_hash_of(aid, ts, pos)]

\* streams.setdefault(aid, []).append(std_dict)
streams_append(st, aid, r) ==
    IF \E k \in 1..Len(st) : st[k][1] = aid
    THEN [k \in 1..Len(st) |->
             IF st[k][1] = aid THEN <<aid, Append(st[k][2], r)>> ELSE st[k]]
    ELSE Append(st, <<aid, <<r>>>>)

\* correlate, "Flatten with agent tag": streams in dict order, records in list order
RECURSIVE Flatten(_)
Flatten(st) ==
    IF st = <<>> THEN <<>>
    ELSE LET aid  == st[Len(st)][1]
             recs == st[Len(st)][2]
         IN  Flatten(SubSeq(st, 1, Len(st) - 1))
                 \o [k \in 1..Len(recs) |-> <<aid, recs[k]>>]

\* list.sort(key=timestamp_ns): stable, equal keys keep their order
RECURSIVE SortByTime(_)
SortByTime(seq) ==
    IF seq = <<>> THEN <<>>
    ELSE LET x    == seq[Len(seq)]
             rest == SortByTime(SubSeq(seq, 1, Len(seq) - 1))
         IN  SelectSeq(rest, LAMBDA e : e[2].timestamp_ns <= x[2].timestamp_ns)
                 \o <<x>>
                 \o SelectSeq(rest, LAMBDA e : e[2].timestamp_ns > x[2].timestamp_ns)

\* evidence_correlator._distance_xy, squared (compared with max_xy_dist only)
_distance_xy_sq(a, b) ==
    (a.position[1] - b.position[1]) * (a.position[1] - b.position[1])
    + (a.position[2] - b.position[2]) * (a.position[2] - b.position[2])

\* correlate, inner while loop from j on, for the window that starts at i
RECURSIVE Scan_break_on_far(_, _, _, _, _, _)
Scan_break_on_far(all_rec, i, j, bucket, W, maxd) ==
    IF ~(j <= Len(all_rec)) THEN bucket
    ELSE IF all_rec[j][2].timestamp_ns - all_rec[i][2].timestamp_ns > W THEN bucket
    ELSE IF _distance_xy_sq(all_rec[i][2], all_rec[j][2]) <= maxd * maxd
         THEN Scan_break_on_far(all_rec, i, j + 1, Append(bucket, all_rec[j]), W, maxd)
         ELSE bucket

RECURSIVE Scan(_, _, _, _, _, _)
Scan(all_rec, i, j, bucket, W, maxd) ==
    IF ~(j <= Len(all_rec)) THEN bucket
    ELSE LET t0 == all_rec[i][2].timestamp_ns
             t  == all_rec[j][2].timestamp_ns
         IN  IF t - t0 > W THEN bucket
             ELSE Scan(all_rec, i, j + 1,
                       IF _distance_xy_sq(all_rec[i][2], all_rec[j][2]) <= maxd * maxd
                       THEN Append(bucket, all_rec[j]) ELSE bucket,
                       W, maxd)

\* min(...) and max(...) of the timestamps of a bucket
MinTs(bucket) ==
    CHOOSE t \in {bucket[k][2].timestamp_ns : k \in 1..Len(bucket)} :
        \A k \in 1..Len(bucket) : t <= bucket[k][2].timestamp_ns

MaxTsOf(bucket) ==
    CHOOSE t \in {bucket[k][2].timestamp_ns : k \in 1..Len(bucket)} :
        \A k \in 1..Len(bucket) : t >= bucket[k][2].timestamp_ns

\* json.dumps of a list of str
RECURSIVE json_str_list_items(_)
json_str_list_items(l) ==
    IF l = <<>> THEN ""
    ELSE IF Len(l) = 1 THEN json_str(l[1])
    ELSE json_str_list_items(SubSeq(l, 1, Len(l) - 1)) \o ", " \o json_str(l[Len(l)])

json_str_list(l) == "[" \o json_str_list_items(l) \o "]"

\* correlate, the event built from a bucket with more than one member
CorrelatedEvent_unsorted(bucket) ==
    LET t_start      == MinTs(bucket)
        t_end        == MaxTsOf(bucket)
        participants == [k \in 1..Len(bucket) |-> bucket[k][1]]
        records      == [k \in 1..Len(bucket) |-> bucket[k][2]]
        payload      ==
            "{\"participants\": " \o json_str_list(participants)
            \o ", \"records_hashes\": "
            \o json_str_list([k \in 1..Len(records) |-> records[k].record_hash])
            \o ", \"t_end_ns\": " \o ToString(t_end)
            \o ", \"t_start_ns\": " \o ToString(t_start) \o "}"
    IN  [t_start_ns |-> t_start, t_end_ns |-> t_end, participants |-> participants,
         records |-> records, correlation_hash |-> sha3_256_hex(payload)]

CorrelatedEvent(bucket) ==
    LET t_start      == MinTs(bucket)
        t_end        == MaxTsOf(bucket)
        participants == sorted_ids({bucket[k][1] : k \in 1..Len(bucket)})
        records      == [k \in 1..Len(bucket) |-> bucket[k][2]]
        payload      ==
            "{\"participants\": " \o json_str_list(participants)
            \o ", \"records_hashes\": "
            \o json_str_list([k \in 1..Len(records) |-> records[k].record_hash])
            \o ", \"t_end_ns\": " \o ToString(t_end)
            \o ", \"t_start_ns\": " \o ToString(t_start) \o "}"
    IN  [t_start_ns |-> t_start, t_end_ns |-> t_end, participants |-> participants,
         records |-> records, correlation_hash |-> sha3_256_hex(payload)]

\* correlate, outer while loop from i on
RECURSIVE Sweep_consume(_, _, _, _, _)
Sweep_consume(all_rec, i, evs, W, maxd) ==
    IF ~(i <= Len(all_rec)) THEN evs
    ELSE LET bucket == Scan(all_rec, i, i + 1, <<all_rec[i]>>, W, maxd)
         IN  Sweep_consume(all_rec, i + Len(bucket),
                           IF Len(bucket) > 1 THEN Append(evs, CorrelatedEvent(bucket))
                           ELSE evs,
                           W, maxd)

RECURSIVE Sweep(_, _, _, _, _)
Sweep(all_rec, i, evs, W, maxd) ==
    IF ~(i <= Len(all_rec)) THEN evs
    ELSE LET bucket == Scan(all_rec, i, i + 1, <<all_rec[i]>>, W, maxd)
         IN  Sweep(all_rec, i + 1,
                   IF Len(bucket) > 1 THEN Append(evs, CorrelatedEvent(bucket))
                   ELSE evs,
                   W, maxd)

\* evidence_correlator.correlate
correlate(st, wms, maxd) ==
    LET all_rec == SortByTime(Flatten(st))
        W       == wms * 1000000
    IN  Sweep(all_rec, 1, <<>>, W, maxd)

\* ---------------------------------------------------- finalized records
MaxSamples == 2     \* iterations of main's loop (SAMPLES)

IngestAgents == {"veh-1", "veh-2"}
IngestPositions == {<<0, 0>>, <<3, 4>>}
IngestVelocities == {<<-20, 1>>}
AnomalyFlags == {-1, 1}              \* int(pred[0])

NoStdDict == [timestamp_ns |-> 0, agent_id |-> "?", position |-> <<0, 0>>,
              velocity |-> <<0, 0>>]

\* d[key] = value on a dict
dict_set(d, key, value) ==
    [k \in DOMAIN d \cup {key} |-> IF k = key THEN value ELSE d[k]]

\* if events: std_dict.setdefault("multi_agent_events", []).extend(events)
attach_events_drop(d, evs) == d

attach_events(d, evs) ==
    IF evs # <<>>
    THEN dict_set(d, "multi_agent_events",
                  (IF "multi_agent_events" \in DOMAIN d
                   THEN d["multi_agent_events"] ELSE <<>>) \o evs)
    ELSE d

json_position(pos) == "{\"x\": " \o ToString(pos[1]) \o ", \"y\": " \o ToString(pos[2]) \o "}"
json_velocity(vel) == "{\"vx\": " \o ToString(vel[1]) \o ", \"vy\": " \o ToString(vel[2]) \o "}"

\* json.dumps of one tracker event, keys in insertion order / in sorted order
json_tracker_event(e, sort_keys) ==
    IF sort_keys
    THEN "{\"participants\": " \o json_str_list(e.participants)
         \o ", \"timestamp_ns\": " \o ToString(e.timestamp_ns)
         \o ", \"type\": " \o json_str(e.type) \o "}"
    ELSE "{\"type\": " \o json_str(e.type)
         \o ", \"participants\": " \o json_str_list(e.participants)
         \o ", \"timestamp_ns\": " \o ToString(e.timestamp_ns) \o "}"

RECURSIVE json_tracker_event_items(_, _)
json_tracker_event_items(l, sort_keys) ==
    IF l = <<>> THEN ""
    ELSE IF Len(l) = 1 THEN json_tracker_event(l[1], sort_keys)
    ELSE json_tracker_event_items(SubSeq(l, 1, Len(l) - 1), sort_keys)
             \o ", " \o json_tracker_event(l[Len(l)], sort_keys)

\* json.dumps(std_dict): keys in insertion order, the keys main added last
json_dumps_std_dict(d) ==
    "{\"timestamp_ns\": " \o ToString(d.timestamp_ns)
    \o ", \"agent_id\": " \o json_str(d.agent_id)
    \o ", \"position\": " \o json_position(d.position)
    \o ", \"velocity\": " \o json_velocity(d.velocity)
    \o (IF "multi_agent_events" \in DOMAIN d
        THEN ", \"multi_agent_events\": ["
             \o json_tracker_event_items(d.multi_agent_events, FALSE) \o "]"
        ELSE "")
    \o (IF "anomaly_flag" \in DOMAIN d
        THEN ", \"anomaly_flag\": " \o ToString(d.anomaly_flag) ELSE "")
    \o "}"

\* json.dumps(std_dict, sort_keys=True)
json_dumps_std_dict_sorted(d) ==
    "{\"agent_id\": " \o json_str(d.agent_id)
    \o (IF "anomaly_flag" \in DOMAIN d
        THEN ", \"anomaly_flag\": " \o ToString(d.anomaly_flag) ELSE "")
    \o (IF "multi_agent_events" \in DOMAIN d
        THEN ", \"multi_agent_events\": ["
             \o json_tracker_event_items(d.multi_agent_events, TRUE) \o "]"
        ELSE "")
    \o ", \"position\": " \o json_position(d.position)
    \o ", \"timestamp_ns\": " \o ToString(d.timestamp_ns)
    \o ", \"velocity\": " \o json_velocity(d.velocity)
    \o "}"

\* ------------------------------------------------- ledger append, any data
MaxRaised == 2      \* add_block calls that raise

\* a payload json.dumps cannot serialize (bytes)
Unserializable == {"b'p3'"}
AppendArgs == Payloads \cup Unserializable

\* Blockchain.add_block as a call: the chain afterwards and whether the call
\* raised.  Block.__init__ runs compute_hash, whose json.dumps raises
\* TypeError on a payload it cannot serialize, before line 35 is reached.
add_block_call_partial(c, data, t) ==
    IF data \in Unserializable
    THEN [chain |-> Append(c, [index |-> Len(c), timestamp |-> t, data |-> data,
                               previous_hash |-> c[Len(c)].hash, hash |-> ""]),
          raised |-> TRUE]
    ELSE [chain |-> add_block(c, data, t), raised |-> FALSE]

add_block_call(c, data, t) ==
    IF data \in Unserializable
    THEN [chain |-> c, raised |-> TRUE]
    ELSE [chain |-> add_block(c, data, t), raised |-> FALSE]

\* ---------------------------------------------------------- time aligner
\* epoch times are counted in quarters of a microsecond
UsUnit == 4

\* values of TimeSyncConfig.mode; NoneMode stands for None
NoneMode == "<None>"
Modes == {"NTP", "TSN", "ntp", "tsn", "", NoneMode, "PTP"}
NtpOffsets == {-1, 0, 2}                      \* ntp_offset_ms
Precisions == {-1, 0, 1, 3, 10}               \* tsn_precision_us
RawTimes == (-9..9) \cup ((1228 * UsUnit)..(1241 * UsUnit))

\* str.upper, on the modes used
upper(m) ==
    CASE m = "ntp" -> "NTP"
      [] m = "tsn" -> "TSN"
      [] OTHER     -> m

\* TimeSynchronizer.__init__: the cfg the object keeps, or the error raised
TimeSynchronizer(c) ==
    LET mode == upper(IF c.mode = NoneMode \/ c.mode = "" THEN "NTP" ELSE c.mode)
    IN  IF mode \notin {"NTP", "TSN"}
        THEN [raised |-> "ValueError", mode |-> "", ntp_offset_ms |-> 0,
              tsn_precision_us |-> 0]
        ELSE [raised |-> "", mode |-> mode, ntp_offset_ms |-> c.ntp_offset_ms,
              tsn_precision_us |-> c.tsn_precision_us]

\* int(round(t_seconds * 1_000_000)): the values the float product can round
\* to.  Off a half the nearest integer; at a half the product is not exact
\* and lands on either side.
round_us(t) ==
    LET k == t \div UsUnit
        r == t % UsUnit
    IN  IF 2 * r < UsUnit THEN {k}
        ELSE IF 2 * r > UsUnit THEN {k + 1}
        ELSE {k, k + 1}

\* max(1, n)
max1(n) == IF n > 1 THEN n ELSE 1

\* TimeSynchronizer.align, us being the value of int(round(t_seconds * 1e6))
align_nearest(self, t_seconds, us) ==
    IF self.mode = "NTP"
    THEN t_seconds + self.ntp_offset_ms * 1000 * UsUnit
    ELSE LET grid     == max1(self.tsn_precision_us)
             us_quant == ((us + grid \div 2) \div grid) * grid
         IN  us_quant * UsUnit

align(self, t_seconds, us) ==
    IF self.mode = "NTP"
    THEN t_seconds + self.ntp_offset_ms * 1000 * UsUnit
    ELSE LET grid     == max1(self.tsn_precision_us)
             us_quant == (us \div grid) * grid
         IN  us_quant * UsUnit

NoConfig == [mode |-> "", ntp_offset_ms |-> 0, tsn_precision_us |-> 0]
NoSynchronizer == [raised |-> "unconstructed", mode |-> "", ntp_offset_ms |-> 0,
                   tsn_precision_us |-> 0]
NoAlign == [t_seconds |-> 0, us |-> 0, out |-> 0, called |-> FALSE]

\* ------------------------------------------------------------------ Init
NoBlock == [index |-> 0, timestamp |-> 0, data |-> "", previous_hash |-> "", hash |-> ""]

\* Blockchain.__init__ at any clock reading; log.jsonl empty
Init ==
    /\ \E t \in Times : chain = <<create_block(t)>>
    /\ log = <<>>
    /\ op = [kind |-> "init", i |-> 0, j |-> 0]
    /\ tampered = FALSE
    /\ pc = [p \in Producers |-> "idle"]
    /\ last_block = [p \in Producers |-> NoBlock]
    /\ new_block = [p \in Producers |-> NoBlock]
    /\ calls = [p \in Producers |-> MaxCalls]
    /\ agents = [a \in {} |-> AgentState(a)]
    /\ last_vel = [a \in {} |-> <<0, 0>>]
    /\ seen = {}
    /\ events = <<>>
    /\ record = NoRecord
    /\ streams = <<>>
    /\ corr = <<>>
    /\ cfg = NoConfig
    /\ tsync = NoSynchronizer
    /\ aligned = NoAlign
    /\ std_dict = NoStdDict
    /\ step = "line99"
    /\ samples = 0
    /\ raised = 0

\* ------------------------------------------------- ledger, one writer
AddBlock ==
    /\ ~tampered
    /\ Len(chain) < MaxChain
    /\ \E data \in Payloads, t \in Times : chain' = add_block(chain, data, t)
    /\ op' = [kind |-> "add_block", i |-> Len(chain), j |-> 0]
    /\ UNCHANGED <<log, tampered, pc, last_block, new_block, calls>>
    /\ UNCHANGED <<trackerVars, corrVars, syncVars, ingestVars, raised>>

\* digests an in-place edit may write into a hash or previous_hash attribute
ForgedHashes(c) ==
    {"0", "deadbeef"}
    \cup {c[k].hash : k \in 1..Len(c)}
    \cup {compute_hash(c[k]) : k \in 1..Len(c)}

\* chain.chain[i].data = v   (tests/integrity_tests.py, tamper block 5)
TamperData ==
    /\ ~tampered
    /\ \E i \in 0..(Len(chain) - 1), v \in Forged :
          /\ v # chain[i + 1].data
          /\ chain' = [chain EXCEPT ![i + 1].data = v]
          /\ op' = [kind |-> "tamper_data", i |-> i, j |-> 0]
    /\ tampered' = TRUE
    /\ UNCHANGED <<log, pc, last_block, new_block, calls>>
    /\ UNCHANGED <<trackerVars, corrVars, syncVars, ingestVars, raised>>

\* chain.chain[i].timestamp = t
TamperTimestamp ==
    /\ ~tampered
    /\ \E i \in 0..(Len(chain) - 1), t \in 0..(MaxTime + 1) :
          /\ t # chain[i + 1].timestamp
          /\ chain' = [chain EXCEPT ![i + 1].timestamp = t]
          /\ op' = [kind |-> "tamper_timestamp", i |-> i, j |-> 0]
    /\ tampered' = TRUE
    /\ UNCHANGED <<log, pc, last_block, new_block, calls>>
    /\ UNCHANGED <<trackerVars, corrVars, syncVars, ingestVars, raised>>

\* chain.chain[i].previous_hash = h
TamperPreviousHash ==
    /\ ~tampered
    /\ \E i \in 0..(Len(chain) - 1), h \in ForgedHashes(chain) :
          /\ h # chain[i + 1].previous_hash
          /\ chain' = [chain EXCEPT ![i + 1].previous_hash = h]
          /\ op' = [kind |-> "tamper_previous_hash", i |-> i, j |-> 0]
    /\ tampered' = TRUE
    /\ UNCHANGED <<log, pc, last_block, new_block, calls>>
    /\ UNCHANGED <<trackerVars, corrVars, syncVars, ingestVars, raised>>

\* chain.chain[i].hash = h
TamperHash ==
    /\ ~tampered
    /\ \E i \in 0..(Len(chain) - 1), h \in ForgedHashes(chain) :
          /\ h # chain[i + 1].hash
          /\ chain' = [chain EXCEPT ![i + 1].hash = h]
          /\ op' = [kind |-> "tamper_hash", i |-> i, j |-> 0]
    /\ tampered' = TRUE
    /\ UNCHANGED <<log, pc, last_block, new_block, calls>>
    /\ UNCHANGED <<trackerVars, corrVars, syncVars, ingestVars, raised>>

\* chain.chain[i].data = v, then the block's own hash is recomputed and
\* stored: either b.hash = b.compute_hash() on the stored object, or the
\* digest a freshly constructed Block with the same four attributes carries.
TamperDataRehash ==
    /\ ~tampered
    /\ \E i \in 0..(Len(chain) - 1), v \in Forged :
          LET b     == [chain[i + 1] EXCEPT !.data = v]
              fresh == Block(b.index, b.timestamp, b.data, b.previous_hash)
          IN  /\ v # chain[i + 1].data
              /\ \E h \in {compute_hash(b), fresh.hash} :
                    chain' = [chain EXCEPT ![i + 1] = [b EXCEPT !.hash = h]]
              /\ op' = [kind |-> "tamper_data_rehash", i |-> i, j |-> 0]
    /\ tampered' = TRUE
    /\ UNCHANGED <<log, pc, last_block, new_block, calls>>
    /\ UNCHANGED <<trackerVars, corrVars, syncVars, ingestVars, raised>>

\* chain.chain[i], chain.chain[j] = chain.chain[j], chain.chain[i]
SwapBlocks ==
    /\ ~tampered
    /\ \E i \in 0..(Len(chain) - 1), j \in 0..(Len(chain) - 1) :
          /\ i < j
          /\ chain' = [chain EXCEPT ![i + 1] = chain[j + 1], ![j + 1] = chain[i + 1]]
          /\ op' = [kind |-> "swap", i |-> i, j |-> j]
    /\ tampered' = TRUE
    /\ UNCHANGED <<log, pc, last_block, new_block, calls>>
    /\ UNCHANGED <<trackerVars, corrVars, syncVars, ingestVars, raised>>

Next ==
    \/ AddBlock
    \/ TamperData
    \/ TamperTimestamp
    \/ TamperPreviousHash
    \/ TamperHash
    \/ TamperDataRehash
    \/ SwapBlocks

Spec == Init /\ [][Next]_vars

\* -------------------------------------- ledger, concurrent producers
\* add_block has no lock: a producer may be preempted between its statements.
\* line 33: last_block = self.chain[-1]
ReadLast(p) ==
    /\ pc[p] = "idle"
    /\ calls[p] > 0
    /\ last_block' = [last_block EXCEPT ![p] = chain[Len(chain)]]
    /\ pc' = [pc EXCEPT ![p] = "line34"]
    /\ UNCHANGED <<chain, log, op, tampered, new_block, calls>>
    /\ UNCHANGED <<trackerVars, corrVars, syncVars, ingestVars, raised>>

\* line 34: new_block = Block(len(self.chain), time.time(), data, last_block.hash)
NewBlock(p) ==
    /\ pc[p] = "line34"
    /\ \E data \in Payloads, t \in Times :
          new_block' = [new_block EXCEPT ![p] = Block(Len(chain), t, data, last_block[p].hash)]
    /\ pc' = [pc EXCEPT ![p] = "line35"]
    /\ UNCHANGED <<chain, log, op, tampered, last_block, calls>>
    /\ UNCHANGED <<trackerVars, corrVars, syncVars, ingestVars, raised>>

\* line 35: self.chain.append(new_block)
AppendBlock(p) ==
    /\ pc[p] = "line35"
    /\ chain' = Append(chain, new_block[p])
    /\ op' = [kind |-> "add_block", i |-> Len(chain), j |-> p]
    /\ pc' = [pc EXCEPT ![p] = "idle"]
    /\ calls' = [calls EXCEPT ![p] = calls[p] - 1]
    /\ UNCHANGED <<log, tampered, last_block, new_block>>
    /\ UNCHANGED <<trackerVars, corrVars, syncVars, ingestVars, raised>>

NextConc ==
    \/ \E p \in Producers : ReadLast(p)
    \/ \E p \in Producers : NewBlock(p)
    \/ \E p \in Producers : AppendBlock(p)

SpecConc == Init /\ [][NextConc]_vars

\* --------------------------------------------------- tamper-evident log
Events == {[agent_id |-> "veh-test", x |-> 0], [agent_id |-> "veh-test", x |-> 1]}
ForgedEvents == Events \cup {[agent_id |-> "veh-test", x |-> 2]}

\* json.dumps(event): keys in insertion order; event is the dict of the
\* integrity test or main's std_dict
json_dumps_event(event) ==
    IF "timestamp_ns" \in DOMAIN event
    THEN json_dumps_std_dict(event)
    ELSE "{\"agent_id\": " \o json_str(event.agent_id) \o ", \"x\": " \o ToString(event.x) \o "}"

\* json.dumps({"timestamp": timestamp, "event": event})
json_dumps_event_data(timestamp, event) ==
    "{\"timestamp\": " \o ToString(timestamp)
    \o ", \"event\": " \o json_dumps_event(event) \o "}"

\* json.dumps(inner, sort_keys=True), the edited entry of the tamper test
json_dumps_sorted(timestamp, event) ==
    "{\"event\": " \o json_dumps_event(event)
    \o ", \"timestamp\": " \o ToString(timestamp) \o "}"

\* sha3_logger.sha3_hash
sha3_hash(data) == sha3_512(data)

\* sha3_logger.log_event, called when time.time() returns timestamp
log_event_hash_event(file, event, timestamp) ==
    LET event_data  == json_dumps_event_data(timestamp, event)
        hash_digest == sha3_hash(json_dumps_event(event))
        entry       == [data |-> event_data, sha3 |-> hash_digest]
    IN  Append(file, entry)

log_event_overwrite(file, event, timestamp) ==
    LET event_data  == json_dumps_event_data(timestamp, event)
        hash_digest == sha3_hash(event_data)
        entry       == [data |-> event_data, sha3 |-> hash_digest]
    IN  <<entry>>

log_event(file, event, timestamp) ==
    LET event_data  == json_dumps_event_data(timestamp, event)
        hash_digest == sha3_hash(event_data)
        entry       == [data |-> event_data, sha3 |-> hash_digest]
    IN  Append(file, entry)

\* the verification loop: line numbers (from 1) whose digest does not match
verify_from0(lines) ==
    LET idx == [k \in 1..Len(lines) |-> k - 1]
    IN  SelectSeq(idx, LAMBDA k : sha3_hash(lines[k + 1].data) # lines[k + 1].sha3)

verify(lines) ==
    LET idx == [k \in 1..Len(lines) |-> k]
    IN  SelectSeq(idx, LAMBDA k : sha3_hash(lines[k].data) # lines[k].sha3)

LogEvent ==
    /\ ~tampered
    /\ Len(log) < MaxLog
    /\ \E event \in Events, t \in Times : log' = log_event(log, event, t)
    /\ op' = [kind |-> "log_event", i |-> Len(log) + 1, j |-> 0]
    /\ UNCHANGED <<chain, tampered, pc, last_block, new_block, calls>>
    /\ UNCHANGED <<trackerVars, corrVars, syncVars, ingestVars, raised>>

\* serialized contents an edit of one line may write
ForgedData ==
    {json_dumps_sorted(t, e) : t \in Times, e \in ForgedEvents}
    \cup {json_dumps_event_data(t, e) : t \in Times, e \in ForgedEvents}

\* obj["data"] = ... of line k, the digest left as it is
TamperEntry ==
    /\ ~tampered
    /\ \E k \in 1..Len(log), d \in ForgedData :
          /\ d # log[k].data
          /\ log' = [log EXCEPT ![k].data = d]
          /\ op' = [kind |-> "tamper_entry", i |-> k, j |-> 0]
    /\ tampered' = TRUE
    /\ UNCHANGED <<chain, pc, last_block, new_block, calls>>
    /\ UNCHANGED <<trackerVars, corrVars, syncVars, ingestVars, raised>>

\* line k is removed from the file, the other lines left as they are
DeleteEntry ==
    /\ ~tampered
    /\ \E k \in 1..Len(log) :
          /\ log' = [n \in 1..(Len(log) - 1) |-> IF n < k THEN log[n] ELSE log[n + 1]]
          /\ op' = [kind |-> "delete_entry", i |-> k, j |-> 0]
    /\ tampered' = TRUE
    /\ UNCHANGED <<chain, pc, last_block, new_block, calls>>
    /\ UNCHANGED <<trackerVars, corrVars, syncVars, ingestVars, raised>>

\* the rearrangements of n lines other than the identity
LineOrders(n) ==
    {f \in [1..n -> 1..n] :
        /\ \A a, b \in 1..n : f[a] = f[b] => a = b
        /\ \E a \in 1..n : f[a] # a}

\* the lines of the file are written back in another order
PermuteEntries ==
    /\ ~tampered
    /\ \E f \in LineOrders(Len(log)) :
          /\ log' = [n \in 1..Len(log) |-> log[f[n]]]
          /\ op' = [kind |-> "permute_entries", i |-> f[1], j |-> 0]
    /\ tampered' = TRUE
    /\ UNCHANGED <<chain, pc, last_block, new_block, calls>>
    /\ UNCHANGED <<trackerVars, corrVars, syncVars, ingestVars, raised>>

NextLog ==
    \/ LogEvent
    \/ TamperEntry
    \/ DeleteEntry
    \/ PermuteEntries

SpecLog == Init /\ [][NextLog]_vars

\* ------------------------------------------------ tracker, one caller
\* events = mam.update(std_dict)
Update ==
    /\ \E a \in 1..Len(AgentIds), pos \in Positions, vel \in Velocities, ts \in 1..MaxTs :
          LET rec == [agent_id |-> AgentIds[a], position |-> pos, velocity |-> vel,
                      timestamp_ns |-> ts]
              res == update(agents, rec)
          IN  /\ agents' = res.agents
              /\ events' = res.events
              /\ record' = rec
              /\ seen' = seen \cup {rec.agent_id}
              /\ last_vel' = [x \in DOMAIN last_vel \cup {rec.agent_id} |->
                                IF x = rec.agent_id THEN vel ELSE last_vel[x]]
    /\ op' = [kind |-> "update", i |-> 0, j |-> 0]
    /\ UNCHANGED <<chain, log, tampered, pc, last_block, new_block, calls>>
    /\ UNCHANGED corrVars
    /\ UNCHANGED <<syncVars, ingestVars, raised>>

NextTracker == Update

\* a tracker next to a ledger constructed at clock reading 0
InitTracker == Init /\ chain[1].timestamp = 0

SpecTracker == InitTracker /\ [][NextTracker]_vars

\* --------------------------------------------- correlation, after a run
\* number of records held in streams
NumRecords(st) == Len(Flatten(st))

\* main: streams.setdefault(aid, []).append(std_dict); the records of one
\* agent arrive in time order
AddRecord ==
    /\ op.kind # "correlate"
    /\ NumRecords(streams) < MaxRecords
    /\ \E aid \in CorrAgents, ts \in CorrTimes, pos \in CorrPositions :
          /\ \A k \in 1..Len(streams) :
                streams[k][1] = aid =>
                    streams[k][2][Len(streams[k][2])].timestamp_ns <= ts
          /\ streams' = streams_append(streams, aid, StdRecord(aid, ts, pos))
    /\ op' = [kind |-> "add_record", i |-> NumRecords(streams) + 1, j |-> 0]
    /\ UNCHANGED <<chain, log, tampered, pc, last_block, new_block, calls>>
    /\ UNCHANGED <<trackerVars, corr>>
    /\ UNCHANGED <<syncVars, ingestVars, raised>>

\* main: corr = correlate(streams, window_ms=CORR_WINDOW_MS), at the end of the run
Correlate ==
    /\ op.kind # "correlate"
    /\ corr' = correlate(streams, window_ms, max_xy_dist)
    /\ op' = [kind |-> "correlate", i |-> 0, j |-> 0]
    /\ UNCHANGED <<chain, log, tampered, pc, last_block, new_block, calls>>
    /\ UNCHANGED <<trackerVars, streams>>
    /\ UNCHANGED <<syncVars, ingestVars, raised>>

NextCorr ==
    \/ AddRecord
    \/ Correlate

\* a correlation run next to a ledger constructed at clock reading 0
InitCorr == Init /\ chain[1].timestamp = 0

SpecCorr == InitCorr /\ [][NextCorr]_vars

\* ------------------------------------------------------ time aligner use
\* tsync = TimeSynchronizer(TimeSyncConfig(mode, ntp_offset_ms, tsn_precision_us))
Construct ==
    /\ \E mode \in Modes, off \in NtpOffsets, p \in Precisions :
          LET c == [mode |-> mode, ntp_offset_ms |-> off, tsn_precision_us |-> p]
          IN  /\ cfg' = c
              /\ tsync' = TimeSynchronizer(c)
    /\ aligned' = NoAlign
    /\ op' = [kind |-> "construct", i |-> 0, j |-> 0]
    /\ UNCHANGED <<chain, log, tampered, pc, last_block, new_block, calls>>
    /\ UNCHANGED <<trackerVars, corrVars, ingestVars, raised>>

\* t = tsync.align(t), on an object whose construction succeeded
Align ==
    /\ tsync.raised = ""
    /\ \E t \in RawTimes :
          \E us \in round_us(t) :
             aligned' = [t_seconds |-> t, us |-> us, out |-> align(tsync, t, us),
                         called |-> TRUE]
    /\ op' = [kind |-> "align", i |-> 0, j |-> 0]
    /\ UNCHANGED <<chain, log, tampered, pc, last_block, new_block, calls>>
    /\ UNCHANGED <<trackerVars, corrVars, ingestVars, raised, cfg, tsync>>

NextSync ==
    \/ Construct
    \/ Align

\* a time aligner next to a ledger constructed at clock reading 0
InitSync == Init /\ chain[1].timestamp = 0

SpecSync == InitSync /\ [][NextSync]_vars

\* ------------------------------------------------------- ingestion loop
\* lines 99-124: raw = get_telemetry(), the aligned timestamp, std_dict
Fetch ==
    /\ step = "line99"
    /\ samples < MaxSamples
    /\ \E aid \in IngestAgents, pos \in IngestPositions, vel \in IngestVelocities,
          ts \in 1..MaxTs :
          std_dict' = [timestamp_ns |-> ts, agent_id |-> aid, position |-> pos,
                       velocity |-> vel]
    /\ step' = "line145"
    /\ op' = [kind |-> "fetch", i |-> samples, j |-> 0]
    /\ UNCHANGED <<chain, log, tampered, pc, last_block, new_block, calls>>
    /\ UNCHANGED <<trackerVars, corrVars, syncVars, samples, raised>>

\* lines 145-148: events = mam.update(std_dict), attached to std_dict
MamUpdate ==
    /\ step = "line145"
    /\ LET res == update(agents, std_dict)
       IN  /\ agents' = res.agents
           /\ events' = res.events
           /\ record' = [agent_id |-> std_dict.agent_id, position |-> std_dict.position,
                         velocity |-> std_dict.velocity,
                         timestamp_ns |-> std_dict.timestamp_ns]
           /\ seen' = seen \cup {std_dict.agent_id}
           /\ last_vel' = [x \in DOMAIN last_vel \cup {std_dict.agent_id} |->
                             IF x = std_dict.agent_id THEN std_dict.velocity
                             ELSE last_vel[x]]
           /\ std_dict' = attach_events(std_dict, res.events)
    /\ step' = "line151"
    /\ op' = [kind |-> "mam_update", i |-> samples, j |-> 0]
    /\ UNCHANGED <<chain, log, tampered, pc, last_block, new_block, calls>>
    /\ UNCHANGED <<corrVars, syncVars, samples, raised>>

\* lines 151-171: std_dict["anomaly_flag"] = flag
AnomalyFlag ==
    /\ step = "line151"
    /\ \E flag \in AnomalyFlags : std_dict' = dict_set(std_dict, "anomaly_flag", flag)
    /\ step' = "line174"
    /\ op' = [kind |-> "anomaly_flag", i |-> samples, j |-> 0]
    /\ UNCHANGED <<chain, log, tampered, pc, last_block, new_block, calls>>
    /\ UNCHANGED <<trackerVars, corrVars, syncVars, samples, raised>>

\* line 174: log_record_sha3(std_dict)
LogRecord ==
    /\ step = "line174"
    /\ \E t \in Times : log' = log_event(log, std_dict, t)
    /\ step' = "line175"
    /\ op' = [kind |-> "log_record", i |-> samples, j |-> 0]
    /\ UNCHANGED <<chain, tampered, pc, last_block, new_block, calls>>
    /\ UNCHANGED <<trackerVars, corrVars, syncVars, std_dict, samples, raised>>

\* line 175: chain.add_block(json.dumps(std_dict, sort_keys=True)); the
\* remaining lines of the iteration touch none of the variables
ChainAdd ==
    /\ step = "line175"
    /\ \E t \in Times : chain' = add_block(chain, json_dumps_std_dict_sorted(std_dict), t)
    /\ step' = "line99"
    /\ samples' = samples + 1
    /\ op' = [kind |-> "chain_add", i |-> samples, j |-> 0]
    /\ UNCHANGED <<log, tampered, pc, last_block, new_block, calls>>
    /\ UNCHANGED <<trackerVars, corrVars, syncVars, std_dict, raised>>

NextIngest ==
    \/ Fetch
    \/ MamUpdate
    \/ AnomalyFlag
    \/ LogRecord
    \/ ChainAdd

\* main after chain = Blockchain() at clock reading 0
InitIngest == Init /\ chain[1].timestamp = 0

SpecIngest == InitIngest /\ [][NextIngest]_vars

\* --------------------------------------- ledger, appends that may raise
\* chain.add_block(data) with any payload; a call that raises leaves the
\* caller with the exception and the ledger as add_block left it
AddBlockCall ==
    /\ Len(chain) < MaxChain
    /\ \E data \in AppendArgs, t \in Times :
          LET res == add_block_call(chain, data, t)
          IN  /\ res.raised => raised < MaxRaised
              /\ chain' = res.chain
              /\ raised' = IF res.raised THEN raised + 1 ELSE raised
              /\ op' = [kind |-> IF res.raised THEN "add_block_raised" ELSE "add_block",
                        i |-> Len(chain), j |-> 0]
    /\ UNCHANGED <<log, tampered, pc, last_block, new_block, calls>>
    /\ UNCHANGED <<trackerVars, corrVars, syncVars, ingestVars>>

NextAppend == AddBlockCall

SpecAppend == Init /\ [][NextAppend]_vars

\* ================================================================ claims

\* C1: validate is true after construction and after any sequence of
\* well-formed add_block calls with no tampering in between.
C1_ValidWhenUntampered == ~tampered => is_chain_valid(chain)

\* C2: replacing the payload of a block i > 0 with a different value, no
\* hash recomputed, makes validate return false.
C2_PayloadTamperDetected ==
    (op.kind = "tamper_data" /\ op.i > 0) => ~is_chain_valid(chain)

C2_Witness ==
    /\ op.kind = "tamper_data"
    /\ op.i > 0
    /\ Len(chain) = 3
    /\ op.i = 1

\* C3: in every ledger, the genesis-only ledger included, changing only the
\* stored hash of a block makes validate return false.
C3_HashTamperDetected == op.kind = "tamper_hash" => ~is_chain_valid(chain)

C5_FieldTamperDetected ==
    op.kind \in {"tamper_data", "tamper_timestamp", "tamper_previous_hash"}
        => ~is_chain_valid(chain)

\* C6: exchanging the blocks stored at two distinct positions makes validate
\* return false.
C6_ReorderDetected == op.kind = "swap" => ~is_chain_valid(chain)

C6_Witness ==
    /\ op.kind = "swap"
    /\ Len(chain) = 2
    /\ chain[1].index = 1
    /\ chain[2].index = 0

\* C7: add_block grows the chain by exactly one block, placed at the end,
\* and leaves every block that was there, and its position, unchanged.
C7_AppendOnly ==
    [][op'.kind = "add_block" =>
          /\ Len(chain') = Len(chain) + 1
          /\ \A k \in 1..Len(chain) : chain'[k] = chain[k]
          /\ chain'[Len(chain')].index = Len(chain)
          /\ chain'[Len(chain')].data \in Payloads]_vars

C7_Witness == op.kind = "add_block" /\ Len(chain) = 3 /\ ~tampered

\* C8: after construction and sequential appends block 0 is the genesis
\* block (index 0, previous_hash "0") and every block i > 0 has index i and
\* previous_hash equal to the hash of block i-1.
C8_Linked ==
    ~tampered =>
        /\ chain[1].index = 0
        /\ chain[1].previous_hash = "0"
        /\ chain[1].data = "Starter Block"
        /\ \A i \in 1..(Len(chain) - 1) :
              /\ chain[i + 1].index = i
              /\ chain[i + 1].previous_hash = chain[i].hash

C8_Witness == ~tampered /\ Len(chain) = 3 /\ op.i = 2

\* C9: after every interleaving of concurrent add_block calls the indices
\* are consecutive and unique and every block's previous_hash is its
\* predecessor's hash.
C9_NoLostUpdate ==
    /\ \A a, b \in 1..Len(chain) : chain[a].index = chain[b].index => a = b
    /\ \A i \in 2..Len(chain) :
          /\ chain[i].index = chain[i - 1].index + 1
          /\ chain[i].previous_hash = chain[i - 1].hash

\* C10: verification of the untouched log reports no line; after the
\* serialized content of exactly one line k was changed, the digest left as
\* it is, verification reports exactly <<k>>, k counted from 1.
C10_VerifyExact ==
    /\ ~tampered => verify(log) = <<>>
    /\ op.kind = "tamper_entry" => verify(log) = <<op.i>>

C10_Witness ==
    /\ op.kind = "tamper_entry"
    /\ Len(log) = 3
    /\ op.i = 2

\* C11: on an untouched log, removing any line or rearranging the lines
\* gives a log on which verification still reports no failing line.
C11_DeleteReorderUndetected ==
    op.kind \in {"delete_entry", "permute_entries"} => verify(log) = <<>>

C11_Witness ==
    /\ op.kind = "permute_entries"
    /\ Len(log) = 3
    /\ log[1].data # log[2].data
    /\ log[2].data # log[3].data

\* C12: log_event adds exactly one entry {data, sha3} with sha3 = H(data) at
\* the end of the log and leaves every earlier entry as it was.
C12_LogAppendOnly ==
    [][op'.kind = "log_event" =>
          /\ Len(log') = Len(log) + 1
          /\ \A k \in 1..Len(log) : log'[k] = log[k]
          /\ log'[Len(log')].sha3 = sha3_512(log'[Len(log')].data)
          /\ \E e \in Events, t \in Times :
                log'[Len(log')].data = json_dumps_event_data(t, e)]_vars

C12_Witness == op.kind = "log_event" /\ Len(log) = 3

\* the other tracked agents that are within prox_threshold and heading_tol
\* of agent aid, by the stored positions and headings
CloseTo(aid) ==
    {o \in DOMAIN agents \ {aid} :
        /\ _dist_sq(agents[aid].last_pos, agents[o].last_pos)
              <= prox_threshold * prox_threshold
        /\ abs(agents[aid].last_heading - agents[o].last_heading) <= heading_tol}

\* C13: after an update of agent A for which no other tracked agent is
\* close, the role of A is independent, whatever it was before.
C13_RoleResetWhenAlone ==
    (op.kind = "update" /\ CloseTo(record.agent_id) = {})
        => agents[record.agent_id].role = "independent"

\* C14: when an update finds close agents, in each pair (updating agent,
\* close agent) the one with the strictly higher speed, by each agent's own
\* latest record, is leader and the other follower.
C14_FasterIsLeader ==
    (op.kind = "update" /\ events # <<>>) =>
        LET aid == record.agent_id
            sp(a) == hypot_sq(last_vel[a][1], last_vel[a][2])
        IN  \A o \in CloseTo(aid) :
               /\ sp(aid) > sp(o) =>
                     agents[aid].role = "leader" /\ agents[o].role = "follower"
               /\ sp(o) > sp(aid) =>
                     agents[o].role = "leader" /\ agents[aid].role = "follower"

\* C15: when a tracker that has seen one agent is updated with a second
\* agent at the same position, with the same heading and both speeds
\* nonzero, the update returns one platoon_detected event whose participants
\* are the two ids, and afterwards one of the two is leader and the other
\* follower.
C15_PairPlatoon ==
    [][(/\ op'.kind = "update"
        /\ Cardinality(DOMAIN agents) = 1
        /\ record'.agent_id \notin DOMAIN agents
        /\ \A a \in DOMAIN agents :
              /\ agents[a].last_pos = record'.position
              /\ agents[a].last_heading = _heading(record'.velocity[1], record'.velocity[2])
              /\ hypot_sq(last_vel[a][1], last_vel[a][2]) > 0
              /\ hypot_sq(record'.velocity[1], record'.velocity[2]) > 0)
       => (/\ Len(events') = 1
           /\ events'[1].type = "platoon_detected"
           /\ {events'[1].participants[k] : k \in 1..Len(events'[1].participants)}
                 = DOMAIN agents \cup {record'.agent_id}
           /\ Len(events'[1].participants) = 2
           /\ {agents'[a].role : a \in DOMAIN agents'} = {"leader", "follower"})]_vars

C15_Witness ==
    /\ op.kind = "update"
    /\ seen = {"veh-1", "veh-3"}
    /\ record.agent_id = "veh-1"
    /\ agents["veh-1"].last_pos = agents["veh-3"].last_pos
    /\ last_vel["veh-1"] = <<-20, 1>>
    /\ last_vel["veh-3"] = <<-40, 2>>
    /\ events # <<>>
    /\ agents["veh-1"].role = "leader"
    /\ agents["veh-3"].role = "follower"

\* position of agent id a in the sort order of ids
IdRank(a) == CHOOSE k \in 1..Len(AgentIds) : AgentIds[k] = a

C17_OneStatePerAgent ==
    /\ DOMAIN agents = seen
    /\ \A a \in DOMAIN agents : agents[a].agent_id = a
    /\ op.kind = "update" =>
          /\ agents[record.agent_id].last_pos = record.position
          /\ agents[record.agent_id].last_heading
                = _heading(record.velocity[1], record.velocity[2])

C17_Witness ==
    /\ op.kind = "update"
    /\ seen = {"veh-1", "veh-2"}
    /\ record.agent_id = "veh-1"
    /\ record.position = <<10, 0>>
    /\ agents["veh-1"].role = "follower"
    /\ events = <<>>

\* the time-sorted union of the records held in streams
AllSorted == SortByTime(Flatten(streams))

\* window_ms in nanoseconds
WindowNs == window_ms * 1000000

\* a later record j belongs to the window anchored at record i
InBucket(all_rec, i, j) ==
    /\ j > i
    /\ all_rec[j][2].timestamp_ns - all_rec[i][2].timestamp_ns <= WindowNs
    /\ _distance_xy_sq(all_rec[i][2], all_rec[j][2]) <= max_xy_dist * max_xy_dist

\* record i followed by the later records that belong to its window, in order
BucketOf(all_rec, i) ==
    <<all_rec[i]>>
        \o SelectSeq([k \in 1..(Len(all_rec) - i) |-> <<i + k, all_rec[i + k]>>],
                     LAMBDA e : InBucket(all_rec, i, e[1]))

BucketRecords(all_rec, i) ==
    LET b == BucketOf(all_rec, i)
    IN  [k \in 1..Len(b) |-> IF k = 1 THEN b[1][2] ELSE b[k][2][2]]

\* the indices that anchor a bucket with more than one member, ascending
Anchors(all_rec) ==
    SelectSeq([k \in 1..Len(all_rec) |-> k], LAMBDA i : Len(BucketOf(all_rec, i)) > 1)

\* C18: the bucket of index i of the time-sorted records is record i plus
\* every later record within window_ms (in ns) and within max_xy_dist of
\* record i; a later record that fails the distance gate is skipped without
\* ending the scan; a record farther than max_xy_dist from every other record
\* is in no emitted event.
C18_BucketContents ==
    op.kind = "correlate" =>
        LET all_rec == AllSorted
        IN  /\ \A a, b \in 1..Len(all_rec) :
                  a < b => all_rec[a][2].timestamp_ns <= all_rec[b][2].timestamp_ns
            /\ \A i \in 1..Len(all_rec) :
                  LET bucket == Scan(all_rec, i, i + 1, <<all_rec[i]>>, WindowNs, max_xy_dist)
                  IN  [k \in 1..Len(bucket) |-> bucket[k][2]] = BucketRecords(all_rec, i)
            /\ \A i \in 1..Len(all_rec) :
                  (\A j \in 1..Len(all_rec) :
                      j # i => _distance_xy_sq(all_rec[i][2], all_rec[j][2])
                                  > max_xy_dist * max_xy_dist)
                  => \A e \in 1..Len(corr) : \A k \in 1..Len(corr[e].records) :
                         corr[e].records[k] # all_rec[i][2]

C18_Witness ==
    /\ op.kind = "correlate"
    /\ Len(AllSorted) = 3
    /\ AllSorted[1][2].position = <<0, 0>>
    /\ AllSorted[2][2].position = <<3, 0>>
    /\ AllSorted[3][2].position = <<0, 0>>
    /\ AllSorted[3][2].timestamp_ns - AllSorted[1][2].timestamp_ns = WindowNs
    /\ Len(corr) = 1
    /\ Len(corr[1].records) = 2

\* C19: correlate emits exactly one event for each index whose bucket has
\* more than one member, in increasing order of the index, and none for the
\* others, so a record may occur in several events; fewer than two records
\* give an empty result.
C19_OneEventPerAnchor ==
    op.kind = "correlate" =>
        LET all_rec == AllSorted
            anchors == Anchors(all_rec)
        IN  /\ Len(corr) = Len(anchors)
            /\ \A e \in 1..Len(corr) :
                  corr[e].records = BucketRecords(all_rec, anchors[e])
            /\ Len(all_rec) < 2 => corr = <<>>

C19_Witness ==
    /\ op.kind = "correlate"
    /\ Len(AllSorted) = 3
    /\ Len(corr) = 2
    /\ Len(corr[1].records) = 3
    /\ Len(corr[2].records) = 2
    /\ corr[1].records[3] = corr[2].records[2]

\* C20: every event returned by correlate has at least two records, t_start
\* and t_end are the least and greatest timestamp_ns of its records (so they
\* differ by at most window_ms in ns), participants is the sorted
\* duplicate-free list of the agent ids of its records, and the records are
\* in scan order, the anchor first.
C20_EventShape ==
    op.kind = "correlate" =>
        \A e \in 1..Len(corr) :
            LET ev == corr[e]
                n  == Len(ev.records)
                ts == {ev.records[k].timestamp_ns : k \in 1..n}
            IN  /\ n >= 2
                /\ ev.t_start_ns \in ts /\ \A t \in ts : ev.t_start_ns <= t
                /\ ev.t_end_ns \in ts /\ \A t \in ts : ev.t_end_ns >= t
                /\ ev.t_end_ns - ev.t_start_ns <= WindowNs
                /\ {ev.participants[k] : k \in 1..Len(ev.participants)}
                      = {ev.records[k].agent_id : k \in 1..n}
                /\ \A k \in 1..(Len(ev.participants) - 1) :
                      IdRank(ev.participants[k]) < IdRank(ev.participants[k + 1])
                /\ \A k \in 1..(n - 1) :
                      ev.records[k].timestamp_ns <= ev.records[k + 1].timestamp_ns
                /\ ev.records[1].timestamp_ns = ev.t_start_ns

C20_Witness ==
    /\ op.kind = "correlate"
    /\ Len(corr) >= 1
    /\ Len(corr[1].records) = 3
    /\ corr[1].participants = <<"veh-1", "veh-2">>
    /\ corr[1].records[1].agent_id = "veh-2"
    /\ corr[1].t_start_ns = 0
    /\ corr[1].t_end_ns = 50000000

\* C21: in TSN mode align returns the largest multiple of
\* max(1, precision_us) microseconds that is not above the microsecond value
\* of the raw time; with precision_us = 10 every raw time whose microsecond
\* value is in [1230, 1239] gives 1230 microseconds; a precision_us of 0 or
\* below gives the microsecond value itself, as precision_us = 1 does.
C21_TsnFloor ==
    (op.kind = "align" /\ tsync.mode = "TSN") =>
        LET p == cfg.tsn_precision_us
            g == IF p >= 1 THEN p ELSE 1
            t == aligned.t_seconds
        IN  /\ aligned.out % (g * UsUnit) = 0
            /\ aligned.out <= aligned.us * UsUnit
            /\ aligned.us * UsUnit < aligned.out + g * UsUnit
            /\ (p = 10 /\ 1230 * UsUnit <= t /\ t <= 1239 * UsUnit)
                   => aligned.out = 1230 * UsUnit
            /\ p <= 0 => aligned.out = aligned.us * UsUnit

C21_Witness ==
    /\ op.kind = "align"
    /\ tsync.mode = "TSN"
    /\ cfg.tsn_precision_us = 10
    /\ aligned.t_seconds = 1239 * UsUnit
    /\ aligned.out = 1230 * UsUnit

\* C22: constructing the time aligner with a mode outside {NTP, TSN}, the
\* empty and the missing mode included, raises an error.
C22_InvalidModeFails ==
    (op.kind = "construct" /\ cfg.mode \notin {"NTP", "TSN"}) => tsync.raised # ""

\* the checks common to both orders of the two appends of C23: update comes
\* before either append, each append happens once per record, and at the
\* end of an iteration the last log entry and the last block both carry the
\* content of std_dict, the events of the update call attached
IngestOncePerRecord ==
    /\ step \in {"line99", "line145", "line151", "line174"}
           => (Len(log) = samples /\ Len(chain) - 1 = samples)
    /\ Len(log) \in {samples, samples + 1}
    /\ Len(chain) - 1 \in {samples, samples + 1}
    /\ (step = "line99" /\ samples > 0) =>
           /\ \E t \in Times :
                 log[Len(log)].data = json_dumps_event_data(t, std_dict)
           /\ chain[Len(chain)].data = json_dumps_std_dict_sorted(std_dict)
           /\ std_dict.agent_id = record.agent_id
           /\ std_dict.timestamp_ns = record.timestamp_ns
           /\ IF events # <<>>
              THEN /\ "multi_agent_events" \in DOMAIN std_dict
                   /\ std_dict["multi_agent_events"] = events
              ELSE "multi_agent_events" \notin DOMAIN std_dict

\* C23 (as claimed): for every record the loop calls update, then the ledger
\* append, then the log append, each once, both appends with the same
\* finalized content; the log therefore never holds more entries than the
\* ledger holds non-genesis blocks, and the two counts agree after each
\* iteration.
C23_UpdateLedgerLog ==
    /\ IngestOncePerRecord
    /\ Len(log) <= Len(chain) - 1

\* C23 (amended): the same with the log append before the ledger append:
\* the ledger never holds more non-genesis blocks than the log holds entries,
\* and between the two appends the log is one entry ahead.
C23_UpdateLogLedger ==
    /\ IngestOncePerRecord
    /\ Len(chain) - 1 <= Len(log)
    /\ step = "line175" => (Len(log) = samples + 1 /\ Len(chain) - 1 = samples)

C23_Witness ==
    /\ op.kind = "chain_add"
    /\ samples = 2
    /\ events # <<>>
    /\ Len(log) = 2
    /\ Len(chain) = 3

\* C24: an add_block call in which serialization fails leaves the chain
\* exactly as it was, and every successful call, also one after a failed
\* call, appends one block that links to the last block of the chain.
C24_FailedAppendLeavesChain ==
    [][ /\ (op'.kind = "add_block_raised" /\ raised' = raised + 1) => chain' = chain
        /\ (op'.kind = "add_block" /\ vars' # vars) =>
               /\ Len(chain') = Len(chain) + 1
               /\ SubSeq(chain', 1, Len(chain)) = chain
               /\ chain'[Len(chain')].previous_hash = chain[Len(chain)].hash
               /\ chain'[Len(chain')].index = Len(chain) ]_vars

C24_Witness ==
    /\ raised = 1
    /\ op.kind = "add_block"
    /\ Len(chain) = 2

\* C25: for every block not modified since its creation, compute_hash on the
\* stored block is the digest of index, timestamp, payload and previous_hash
\* alone, and equals the stored hash.
C25_RecomputedEqualsStored ==
    ~tampered =>
        \A k \in 1..Len(chain) :
            /\ compute_hash(chain[k]) = chain[k].hash
            /\ compute_hash(chain[k]) =
                   sha3_512(json_dumps_block(
                       [index |-> chain[k].index, timestamp |-> chain[k].timestamp,
                        data |-> chain[k].data,
                        previous_hash |-> chain[k].previous_hash]))

\* the angular distance min(|d|, 2*pi - |d|) of two headings
AngularDistance(a, b) ==
    LET d == abs(a - b)
    IN  IF d <= 2 * PiMicro - d THEN d ELSE 2 * PiMicro - d

\* C26: after an update, every other agent within prox_threshold whose
\* heading is within heading_tol of the updating agent's as an angular
\* distance is a participant of a platoon_detected event of that call.
C26_WrapAwareClose ==
    op.kind = "update" =>
        \A other \in DOMAIN agents \ {record.agent_id} :
            ( /\ _dist_sq(record.position, agents[other].last_pos)
                     <= prox_threshold * prox_threshold
              /\ AngularDistance(agents[record.agent_id].last_heading,
                                 agents[other].last_heading) <= heading_tol )
            => /\ events # <<>>
               /\ \E k \in 1..Len(events[1].participants) :
                     events[1].participants[k] = other

\* C27: every event returned by correlate has at least two distinct agent
\* ids among its participants.
C27_CrossAgent ==
    op.kind = "correlate" =>
        \A k \in 1..Len(corr) :
            Cardinality({corr[k].participants[n] : n \in 1..Len(corr[k].participants)}) >= 2

====
